---- MODULE Spec2Model ----
(***************************************************************************)
(* Model of advanced-vector/vector.h: RawMemory<T> (a block of raw,        *)
(* unconstructed storage) and Vector<T> (a RawMemory plus the number of    *)
(* live elements).  The heap is explicit: every block is a sequence of     *)
(* slots, each slot raw storage, a live object holding a value, or a live  *)
(* object in the moved-from state.  Every public operation of Vector is    *)
(* one action, computed step by step from the statements of its body.      *)
(***************************************************************************)
EXTENDS Integers, Sequences, FiniteSets, TLC

\* ---------------------------------------------------------------- bounds
\* Largest capacity of a vector while it is the only vector constructed.
MaxSlots == 4
\* Largest number of slots two constructed vectors own together.
MaxPairSlots == 2

\* The vectors of the program, and the values an element may hold.
VecIds == {"a", "b"}
Values == {0, 1}

\* ------------------------------------------------------------ the element
\* A slot of raw storage in which no object lives.
Raw == -1
\* A live object whose value was moved out of it.
MovedFrom == -2
\* The value of a value-initialized / default-constructed T.
TDefault == 0
\* buffer_ of a RawMemory of capacity 0.
NullPtr == 0
\* The element types T: whether T's move operations are declared noexcept and
\* whether T has a copy constructor (the traits MoveOrCopy reads).
Types == [nothrowMove : BOOLEAN, copyable : BOOLEAN]
IsNothrowMoveConstructible(T) == T.nothrowMove
IsCopyConstructible(T) == T.copyable
\* The element type of the program's vectors.
Element == [nothrowMove |-> TRUE, copyable |-> TRUE]

\* Addresses operator new can return: one block per vector and one for the
\* temporary buffer an operation builds.
Blocks == 1..(Cardinality(VecIds) + 1)

VARIABLES
    vecs,   \* vecs[v]: the Vector object v: alive, data_ (buffer_, capacity_), size_
    heap,   \* heap[b]: the slots of block b, << >> when b is not allocated
    last,   \* the last call: operation, vectors, arguments, path taken
    hist    \* hist[v]: what is known of v's history since its construction

vars == <<vecs, heap, last, hist>>

Min(x, y) == IF x <= y THEN x ELSE y

\* ------------------------------------------------- the state of one call
\* An operation is computed on a record m: the heap and the vectors as the
\* call changes them, the iterator it returns, and counts of what it did:
\* constructor and destructor calls, assignments, move constructions, blocks
\* allocated and released, objects whose storage was released or reused while
\* they were alive (leaked), destructor calls on storage that holds no object
\* (dtorTwice) and releases of a block that is not allocated (freeTwice).
\* T is the element type.  fail is the number of steps that can throw and
\* pass before one throws (-1: none throws); threw is what threw.
NoIter == [buffer_ |-> NullPtr, offset |-> -1]

Start ==
    [heap |-> heap, vecs |-> vecs, ret |-> NoIter,
     ctor |-> 0, dtor |-> 0, asg |-> 0, alloc |-> 0, free |-> 0,
     moved |-> 0, leaked |-> 0, dtorTwice |-> 0, freeTwice |-> 0,
     T |-> Element, fail |-> -1, threw |-> ""]

\* The call made with element type T, in which the step after k steps that
\* can throw does throw.
StartOf(T, k) == [Start EXCEPT !.T = T, !.fail = k]

\* The step throws: the exception is in flight.
Throw(m, what) == [m EXCEPT !.threw = what, !.fail = -1]
\* A step that can throw did not.
Pass(m) == [m EXCEPT !.fail = IF @ > 0 THEN @ - 1 ELSE @]
\* No exception is in flight.
Ok(m) == m.threw = ""

\* ------------------------------------------------------------- RawMemory
\* The address operator new returns: a block that is not allocated.
FreshBlock(m) ==
    CHOOSE b \in Blocks :
        /\ m.heap[b] = << >>
        /\ \A c \in Blocks : m.heap[c] = << >> => b <= c

\* RawMemory::Allocate(n): the buffer_ of RawMemory(n).
AllocPtr(m, n) == IF n # 0 THEN FreshBlock(m) ELSE NullPtr

\* RawMemory::RawMemory(capacity): n raw slots, or nothing when n = 0;
\* operator new can throw.
Allocate(m, n) ==
    IF n = 0 THEN m
    ELSE IF m.fail = 0 THEN Throw(m, "alloc")
    ELSE [Pass(m) EXCEPT !.heap[FreshBlock(m)] = [i \in 1..n |-> Raw],
                         !.alloc = @ + 1]

\* RawMemory::~RawMemory(): operator delete(buffer_).  The objects alive in
\* the block are never destroyed.
Deallocate(m, buf) ==
    IF buf = NullPtr THEN m
    ELSE IF m.heap[buf] = << >> THEN [m EXCEPT !.freeTwice = @ + 1]
    ELSE [m EXCEPT !.heap[buf] = << >>, !.free = @ + 1,
                   !.leaked = @ + Cardinality({i \in DOMAIN m.heap[buf] :
                                                  m.heap[buf][i] # Raw})]

\* ------------------------------------------------- operations on elements
At(m, b, i) == m.heap[b][i + 1]

\* new (b + i) T(x): a constructor of T from arguments, or its copy
\* constructor; it can throw.
ConstructAt(m, b, i, x) ==
    IF m.fail = 0 THEN Throw(m, "ctor")
    ELSE [Pass(m) EXCEPT !.heap[b][i + 1] = x, !.ctor = @ + 1,
                         !.leaked = IF At(m, b, i) # Raw THEN @ + 1 ELSE @]

\* std::destroy_at(b + i)
DestroyAt(m, b, i) ==
    IF At(m, b, i) = Raw THEN [m EXCEPT !.dtorTwice = @ + 1]
    ELSE [m EXCEPT !.heap[b][i + 1] = Raw, !.dtor = @ + 1]

\* b[i] = x: the copy assignment of T; it can throw.
AssignAt(m, b, i, x) ==
    IF m.fail = 0 THEN Throw(m, "assign")
    ELSE [Pass(m) EXCEPT !.heap[b][i + 1] = x, !.asg = @ + 1]

\* The source of a move is left in the moved-from state.
MoveOut(m, b, i) == [m EXCEPT !.heap[b][i + 1] = MovedFrom]

\* A move of T can throw unless T's move operations are noexcept.
MoveThrows(m) == ~IsNothrowMoveConstructible(m.T) /\ m.fail = 0
MovePass(m) == IF IsNothrowMoveConstructible(m.T) THEN m ELSE Pass(m)

\* new (db + di) T(std::move(sb[si])): the move constructor of T.
MoveConstructAt(m, sb, si, db, di) ==
    IF MoveThrows(m) THEN Throw(m, "move")
    ELSE MoveOut([MovePass(m) EXCEPT !.heap[db][di + 1] = At(m, sb, si),
                                     !.ctor = @ + 1, !.moved = @ + 1,
                                     !.leaked = IF At(m, db, di) # Raw
                                                THEN @ + 1 ELSE @],
                 sb, si)

\* b[i] = T(x): a temporary is constructed, move-assigned to b[i] and
\* destroyed, also when the assignment throws.
AssignTemporary(m, b, i, x) ==
    IF m.fail = 0 THEN Throw(m, "ctor")
    ELSE LET m1 == [Pass(m) EXCEPT !.ctor = @ + 1]
             m2 == IF MoveThrows(m1) THEN Throw(m1, "move")
                   ELSE [MovePass(m1) EXCEPT !.heap[b][i + 1] = x,
                                             !.asg = @ + 1]
         IN [m2 EXCEPT !.dtor = @ + 1]

RECURSIVE DestroyN(_, _, _, _)
\* std::destroy_n(b + off, n)
DestroyN(m, b, off, n) ==
    IF n <= 0 THEN m
    ELSE DestroyN(DestroyAt(m, b, off), b, off + 1, n - 1)

RECURSIVE UninitializedCopyN(_, _, _, _, _, _)
\* std::uninitialized_copy_n(sb + so, n, db + dof): when a copy throws, the
\* objects already constructed are destroyed.
UninitializedCopyN(m, sb, so, n, db, dof) ==
    IF n <= 0 THEN m
    ELSE LET m1 == ConstructAt(m, db, dof, At(m, sb, so)) IN
         IF ~Ok(m1) THEN m1
         ELSE LET m2 == UninitializedCopyN(m1, sb, so + 1, n - 1, db, dof + 1)
              IN IF ~Ok(m2) THEN DestroyAt(m2, db, dof) ELSE m2

RECURSIVE UninitializedMoveN(_, _, _, _, _, _)
\* std::uninitialized_move_n(sb + so, n, db + dof): when a move throws, the
\* objects already constructed are destroyed; their sources stay moved from.
UninitializedMoveN(m, sb, so, n, db, dof) ==
    IF n <= 0 THEN m
    ELSE LET m1 == MoveConstructAt(m, sb, so, db, dof) IN
         IF ~Ok(m1) THEN m1
         ELSE LET m2 == UninitializedMoveN(m1, sb, so + 1, n - 1, db, dof + 1)
              IN IF ~Ok(m2) THEN DestroyAt(m2, db, dof) ELSE m2

RECURSIVE UninitializedValueConstructN(_, _, _, _)
\* std::uninitialized_value_construct_n(b + off, n)
UninitializedValueConstructN(m, b, off, n) ==
    IF n <= 0 THEN m
    ELSE LET m1 == ConstructAt(m, b, off, TDefault) IN
         IF ~Ok(m1) THEN m1
         ELSE LET m2 == UninitializedValueConstructN(m1, b, off + 1, n - 1)
              IN IF ~Ok(m2) THEN DestroyAt(m2, b, off) ELSE m2

RECURSIVE UninitializedDefaultConstructN(_, _, _, _)
\* std::uninitialized_default_construct_n(b + off, n): T's default constructor
UninitializedDefaultConstructN(m, b, off, n) ==
    IF n <= 0 THEN m
    ELSE LET m1 == ConstructAt(m, b, off, TDefault) IN
         IF ~Ok(m1) THEN m1
         ELSE LET m2 == UninitializedDefaultConstructN(m1, b, off + 1, n - 1)
              IN IF ~Ok(m2) THEN DestroyAt(m2, b, off) ELSE m2

RECURSIVE CopyN(_, _, _, _, _, _)
\* std::copy_n(sb + so, n, db + dof): copy assignment, front to back.
CopyN(m, sb, so, n, db, dof) ==
    IF n <= 0 \/ ~Ok(m) THEN m
    ELSE CopyN(AssignAt(m, db, dof, At(m, sb, so)),
               sb, so + 1, n - 1, db, dof + 1)

\* *(b + d) = std::move(*(b + s)): the move assignment of T.
MoveAssign(m, b, s, d) ==
    IF s = d THEN m
    ELSE IF MoveThrows(m) THEN Throw(m, "move")
    ELSE MoveOut([MovePass(m) EXCEPT !.heap[b][d + 1] = At(m, b, s),
                                     !.asg = @ + 1],
                 b, s)

RECURSIVE MoveForward(_, _, _, _, _)
\* std::move(b + first, b + lst, b + dfirst): move assignment, front to back.
MoveForward(m, b, first, lst, dfirst) ==
    IF first >= lst \/ ~Ok(m) THEN m
    ELSE MoveForward(MoveAssign(m, b, first, dfirst),
                     b, first + 1, lst, dfirst + 1)

RECURSIVE MoveBackward(_, _, _, _, _)
\* std::move_backward(b + first, b + lst, b + dlast): back to front.
MoveBackward(m, b, first, lst, dlast) ==
    IF first >= lst \/ ~Ok(m) THEN m
    ELSE MoveBackward(MoveAssign(m, b, lst - 1, dlast - 1),
                      b, first, lst - 1, dlast - 1)

\* MoveOrCopy that moves whatever the element type.
MoveOrCopyAlwaysMoves(m, sb, so, n, db, dof) ==
    UninitializedMoveN(m, sb, so, n, db, dof)

\* Vector::MoveOrCopy(data, size, new_data)
MoveOrCopy(m, sb, so, n, db, dof) ==
    IF IsNothrowMoveConstructible(m.T) \/ ~IsCopyConstructible(m.T)
    THEN UninitializedMoveN(m, sb, so, n, db, dof)
    ELSE UninitializedCopyN(m, sb, so, n, db, dof)

\* ---------------------------------------------------------------- Vector
\* A Vector object that is not constructed (before its constructor, after
\* its destructor).
Dead == [alive |-> FALSE, buffer_ |-> NullPtr, capacity_ |-> 0, size_ |-> 0]

\* Vector(): data_ and size_ from their default member initializers.
Empty == [alive |-> TRUE, buffer_ |-> NullPtr, capacity_ |-> 0, size_ |-> 0]

\* Vector() = default
VectorDefault(m, v) == [m EXCEPT !.vecs[v] = Empty]

\* explicit Vector(size_t size).  When a constructor of T throws, the member
\* data_ is destroyed and v is not constructed.
VectorSized(m, v, n) ==
    LET b  == AllocPtr(m, n)
        m1 == Allocate(m, n)
    IN
    IF ~Ok(m1) THEN m1
    ELSE LET m2 == UninitializedValueConstructN(m1, b, 0, n) IN
         IF ~Ok(m2) THEN Deallocate(m2, b)
         ELSE [m2 EXCEPT !.vecs[v] = [alive |-> TRUE, buffer_ |-> b,
                                      capacity_ |-> n, size_ |-> n]]

\* Vector(const Vector& other): the object this constructor builds from o.
CopyOf(m, o) ==
    [alive |-> TRUE, buffer_ |-> AllocPtr(m, o.size_),
     capacity_ |-> o.size_, size_ |-> o.size_]

\* Vector(const Vector& other): what it does to the memory.  When a copy
\* throws, the member data_ is destroyed.
CopyElements(m, o) ==
    LET m1 == Allocate(m, o.size_) IN
    IF ~Ok(m1) THEN m1
    ELSE LET m2 == UninitializedCopyN(m1, o.buffer_, 0, o.size_,
                                      AllocPtr(m, o.size_), 0)
         IN IF ~Ok(m2) THEN Deallocate(m2, AllocPtr(m, o.size_)) ELSE m2

\* A copy constructor that copies the members: both vectors hold one buffer.
VectorCopyShallow(m, v, w) == [m EXCEPT !.vecs[v] = m.vecs[w]]

\* Vector(const Vector& other), constructing v from w.
VectorCopy(m, v, w) ==
    LET m1 == CopyElements(m, m.vecs[w]) IN
    IF ~Ok(m1) THEN m1
    ELSE [m1 EXCEPT !.vecs[v] = CopyOf(m, m.vecs[w])]

\* Swap that exchanges data_ and leaves size_.
SwapBuffersOnly(m, v, w) ==
    [m EXCEPT !.vecs[v].buffer_ = m.vecs[w].buffer_,
              !.vecs[v].capacity_ = m.vecs[w].capacity_,
              !.vecs[w].buffer_ = m.vecs[v].buffer_,
              !.vecs[w].capacity_ = m.vecs[v].capacity_]

\* void Swap(Vector& other) noexcept: RawMemory::Swap and std::swap(size_).
Swap(m, v, w) ==
    [m EXCEPT !.vecs[v] = m.vecs[w], !.vecs[w] = m.vecs[v]]

\* A move constructor that copies the members and leaves the source as it is.
VectorMoveShallow(m, v, w) == [m EXCEPT !.vecs[v] = m.vecs[w]]

\* Vector(Vector&& other) noexcept
VectorMove(m, v, w) == Swap(VectorDefault(m, v), v, w)

\* A destructor that destroys the elements and does not release the block.
DestructorKeepsBlock(m, v) ==
    LET t == m.vecs[v]
    IN [DestroyN(m, t.buffer_, 0, t.size_) EXCEPT !.vecs[v] = Dead]

\* ~Vector(), then ~RawMemory() of data_.
Destructor(m, v) ==
    LET t  == m.vecs[v]
        m1 == DestroyN(m, t.buffer_, 0, t.size_)
        m2 == Deallocate(m1, t.buffer_)
    IN [m2 EXCEPT !.vecs[v] = Dead]

\* Reserve with the early return taken only when new_capacity < Capacity().
ReserveStrictlyLess(m, v, n) ==
    LET t == m.vecs[v] IN
    IF n < t.capacity_ THEN m
    ELSE
        LET nb == AllocPtr(m, n)
            m1 == Allocate(m, n)
            m2 == MoveOrCopy(m1, t.buffer_, 0, t.size_, nb, 0)
            m3 == DestroyN(m2, t.buffer_, 0, t.size_)
            m4 == [m3 EXCEPT !.vecs[v].buffer_ = nb, !.vecs[v].capacity_ = n]
        IN Deallocate(m4, t.buffer_)

\* Reserve that grows to at least twice the capacity.
ReserveDoubling(m, v, n) ==
    LET t == m.vecs[v] IN
    IF n <= t.capacity_ THEN m
    ELSE
        LET k  == IF n < 2 * t.capacity_ THEN 2 * t.capacity_ ELSE n
            nb == AllocPtr(m, k)
            m1 == Allocate(m, k)
            m2 == MoveOrCopy(m1, t.buffer_, 0, t.size_, nb, 0)
            m3 == DestroyN(m2, t.buffer_, 0, t.size_)
            m4 == [m3 EXCEPT !.vecs[v].buffer_ = nb, !.vecs[v].capacity_ = k]
        IN Deallocate(m4, t.buffer_)

\* void Reserve(size_t new_capacity)
Reserve(m, v, n) ==
    LET t == m.vecs[v] IN
    IF n <= t.capacity_ THEN m
    ELSE
        LET nb == AllocPtr(m, n)
            m1 == Allocate(m, n)
        IN
        IF ~Ok(m1) THEN m1
        ELSE
        LET m2 == MoveOrCopy(m1, t.buffer_, 0, t.size_, nb, 0) IN
        \* unwinding: ~RawMemory() of new_data
        IF ~Ok(m2) THEN Deallocate(m2, nb)
        ELSE
        LET m3 == DestroyN(m2, t.buffer_, 0, t.size_)
            \* data_.Swap(new_data)
            m4 == [m3 EXCEPT !.vecs[v].buffer_ = nb, !.vecs[v].capacity_ = n]
        \* ~RawMemory() of new_data, which now holds the old block
        IN Deallocate(m4, t.buffer_)

\* Copy assignment by copy-and-swap on every path.
CopyAssignAlwaysCopies(m, v, w) ==
    LET t  == m.vecs[v]
        o  == m.vecs[w]
        m1 == CopyElements(m, o)
        m2 == [m1 EXCEPT !.vecs[v] = CopyOf(m, o)]
    IN Deallocate(DestroyN(m2, t.buffer_, 0, t.size_), t.buffer_)

\* Vector& operator=(const Vector& other), v = w
CopyAssign(m, v, w) ==
    LET t == m.vecs[v]
        o == m.vecs[w]
    IN
    IF o.size_ > t.capacity_
    THEN
        \* Vector temp(other)
        LET m1 == CopyElements(m, o) IN
        IF ~Ok(m1) THEN m1
        ELSE
        \* Swap(temp): temp now holds what v held
        LET m2 == [m1 EXCEPT !.vecs[v] = CopyOf(m, o)]
            \* ~Vector() of temp
            m3 == Deallocate(DestroyN(m2, t.buffer_, 0, t.size_), t.buffer_)
        IN [m3 EXCEPT !.vecs[v].size_ = m3.vecs[w].size_]
    ELSE
        LET m1 == CopyN(m, o.buffer_, 0, Min(t.size_, o.size_), t.buffer_, 0)
        IN
        IF ~Ok(m1) THEN m1
        ELSE
        LET m2 == IF t.size_ > o.size_
                  THEN DestroyN(m1, t.buffer_, o.size_, t.size_ - o.size_)
                  ELSE IF t.size_ < o.size_
                  THEN UninitializedCopyN(m1, o.buffer_, t.size_,
                                          o.size_ - t.size_, t.buffer_, t.size_)
                  ELSE m1
        IN IF ~Ok(m2) THEN m2 ELSE [m2 EXCEPT !.vecs[v].size_ = o.size_]

\* Vector& operator=(Vector&& rhs) noexcept
MoveAssignVector(m, v, w) == Swap(m, v, w)

\* Resize whose shrinking path only sets size_.
ResizeKeepsExcess(m, v, n) ==
    LET t == m.vecs[v] IN
    IF n > t.size_
    THEN
        LET m1 == IF n > t.capacity_ THEN Reserve(m, v, n) ELSE m IN
        IF ~Ok(m1) THEN m1
        ELSE
        LET m2 == UninitializedDefaultConstructN(m1, m1.vecs[v].buffer_,
                                                 t.size_, n - t.size_)
        IN IF ~Ok(m2) THEN m2 ELSE [m2 EXCEPT !.vecs[v].size_ = n]
    ELSE [m EXCEPT !.vecs[v].size_ = n]

\* void Resize(size_t new_size)
Resize(m, v, n) ==
    LET t == m.vecs[v] IN
    IF n > t.size_
    THEN
        LET m1 == IF n > t.capacity_ THEN Reserve(m, v, n) ELSE m IN
        IF ~Ok(m1) THEN m1
        ELSE
        LET m2 == UninitializedDefaultConstructN(m1, m1.vecs[v].buffer_,
                                                 t.size_, n - t.size_)
        IN IF ~Ok(m2) THEN m2 ELSE [m2 EXCEPT !.vecs[v].size_ = n]
    ELSE
        LET m1 == DestroyN(m, t.buffer_, n, t.size_ - n)
        IN [m1 EXCEPT !.vecs[v].size_ = n]

\* PopBack that only decrements size_.
PopBackNoDestroy(m, v) == [m EXCEPT !.vecs[v].size_ = m.vecs[v].size_ - 1]

\* void PopBack() noexcept
PopBack(m, v) ==
    LET t  == m.vecs[v]
        m1 == [m EXCEPT !.vecs[v].size_ = t.size_ - 1]
    IN DestroyAt(m1, t.buffer_, t.size_ - 1)

\* Growth by one slot.
GrownCapacityByOne(size) == size + 1

\* The capacity of the buffer EmplaceBack and Emplace allocate.
GrownCapacity(size) == IF size = 0 THEN 1 ELSE size * 2

\* EmplaceBack that migrates one element too few into the new buffer.
EmplaceBackMigratesShort(m, v, x) ==
    LET t == m.vecs[v] IN
    IF t.size_ = t.capacity_
    THEN
        LET n  == IF t.size_ = 0 THEN 1 ELSE t.size_ * 2
            nb == AllocPtr(m, n)
            m1 == Allocate(m, n)
            m2 == ConstructAt(m1, nb, t.size_, x)
            m3 == MoveOrCopy(m2, t.buffer_, 0, t.size_ - 1, nb, 0)
            m4 == DestroyN(m3, t.buffer_, 0, t.size_)
            m5 == [m4 EXCEPT !.vecs[v].buffer_ = nb,
                             !.vecs[v].capacity_ = n,
                             !.vecs[v].size_ = t.size_ + 1]
        IN Deallocate(m5, t.buffer_)
    ELSE
        LET m1 == ConstructAt(m, t.buffer_, t.size_, x)
        IN [m1 EXCEPT !.vecs[v].size_ = t.size_ + 1]

\* An argument of EmplaceBack, Emplace, PushBack or Insert is a value, or the
\* reference Ref(i) to the element v[i] of the vector the call is made on.
Ref(i) == Cardinality(Values) + i
\* What the argument x denotes when it is read: a reference is to the object
\* at b + i, b being the buffer the vector had when the call was made.
Arg(m, b, x) == IF x \in Values THEN x ELSE At(m, b, x - Ref(0))

\* EmplaceBack that migrates the elements before it constructs the new one.
EmplaceBackMigratesFirst(m, v, x) ==
    LET t == m.vecs[v] IN
    IF t.size_ = t.capacity_
    THEN
        LET n  == GrownCapacity(t.size_)
            nb == AllocPtr(m, n)
            m1 == Allocate(m, n)
        IN
        IF ~Ok(m1) THEN m1
        ELSE
        LET m2 == MoveOrCopy(m1, t.buffer_, 0, t.size_, nb, 0) IN
        IF ~Ok(m2) THEN Deallocate(m2, nb)
        ELSE
        LET m3 == ConstructAt(m2, nb, t.size_, Arg(m2, t.buffer_, x)) IN
        IF ~Ok(m3) THEN Deallocate(m3, nb)
        ELSE
        LET m4 == DestroyN(m3, t.buffer_, 0, t.size_)
            m5 == [m4 EXCEPT !.vecs[v].buffer_ = nb,
                             !.vecs[v].capacity_ = n,
                             !.vecs[v].size_ = t.size_ + 1]
        IN Deallocate(m5, t.buffer_)
    ELSE
        LET m1 == ConstructAt(m, t.buffer_, t.size_, Arg(m, t.buffer_, x))
        IN IF ~Ok(m1) THEN m1 ELSE [m1 EXCEPT !.vecs[v].size_ = t.size_ + 1]

\* T& EmplaceBack(Types&&... args), with one argument x
EmplaceBack(m, v, x) ==
    LET t == m.vecs[v] IN
    IF t.size_ = t.capacity_
    THEN
        LET n  == GrownCapacity(t.size_)
            nb == AllocPtr(m, n)
            m1 == Allocate(m, n)
        IN
        IF ~Ok(m1) THEN m1
        ELSE
        LET m2 == ConstructAt(m1, nb, t.size_, Arg(m1, t.buffer_, x)) IN
        \* unwinding: ~RawMemory() of new_data
        IF ~Ok(m2) THEN Deallocate(m2, nb)
        ELSE
        LET m3 == MoveOrCopy(m2, t.buffer_, 0, t.size_, nb, 0) IN
        IF ~Ok(m3) THEN Deallocate(m3, nb)
        ELSE
        LET m4 == DestroyN(m3, t.buffer_, 0, t.size_)
            m5 == [m4 EXCEPT !.vecs[v].buffer_ = nb,
                             !.vecs[v].capacity_ = n,
                             !.vecs[v].size_ = t.size_ + 1]
        IN Deallocate(m5, t.buffer_)
    ELSE
        LET m1 == ConstructAt(m, t.buffer_, t.size_, Arg(m, t.buffer_, x))
        IN IF ~Ok(m1) THEN m1 ELSE [m1 EXCEPT !.vecs[v].size_ = t.size_ + 1]

\* Emplace whose below-capacity path shifts with std::move, front to back.
EmplaceShiftsForward(m, v, dist, x) ==
    LET t  == m.vecs[v]
        n  == IF t.size_ = 0 THEN 1 ELSE t.size_ * 2
        nb == AllocPtr(m, n)
        m0 == Allocate(m, n)
    IN
    IF t.size_ = t.capacity_
    THEN
        LET m1 == ConstructAt(m0, nb, dist, x)
            m2 == MoveOrCopy(m1, t.buffer_, 0, dist, nb, 0)
            m3 == MoveOrCopy(m2, t.buffer_, dist, t.size_ - dist, nb, dist + 1)
            m4 == DestroyN(m3, t.buffer_, 0, t.size_)
            m5 == [m4 EXCEPT !.vecs[v].buffer_ = nb,
                             !.vecs[v].capacity_ = n,
                             !.vecs[v].size_ = t.size_ + 1,
                             !.ret = [buffer_ |-> nb, offset |-> dist]]
        IN Deallocate(m5, t.buffer_)
    ELSE
        LET b  == t.buffer_
            m1 == IF (b = NullPtr /\ dist = 0) \/ dist = t.size_
                  THEN ConstructAt(m0, b, t.size_, x)
                  ELSE
                      LET k1 == MoveOut(ConstructAt(m0, b, t.size_,
                                                    At(m0, b, t.size_ - 1)),
                                        b, t.size_ - 1)
                          k2 == MoveForward(k1, b, dist, t.size_ - 1, dist + 1)
                          k3 == AssignAt(k2, b, dist, x)
                      IN [k3 EXCEPT !.ctor = @ + 1, !.dtor = @ + 1]
            m2 == [m1 EXCEPT !.vecs[v].size_ = t.size_ + 1,
                             !.ret = [buffer_ |-> b, offset |-> dist]]
        IN Deallocate(m2, nb)

\* iterator Emplace(const_iterator pos, Args&&... args), pos = begin() + dist
Emplace(m, v, dist, x) ==
    LET t  == m.vecs[v]
        n  == GrownCapacity(t.size_)
        nb == AllocPtr(m, n)
        \* RawMemory<T> new_data(...), on both paths
        m0 == Allocate(m, n)
    IN
    IF ~Ok(m0) THEN m0
    ELSE IF t.size_ = t.capacity_
    THEN
        LET m1 == ConstructAt(m0, nb, dist, Arg(m0, t.buffer_, x)) IN
        \* unwinding: ~RawMemory() of new_data
        IF ~Ok(m1) THEN Deallocate(m1, nb)
        ELSE
        LET m2 == MoveOrCopy(m1, t.buffer_, 0, dist, nb, 0) IN
        IF ~Ok(m2) THEN Deallocate(m2, nb)
        ELSE
        LET m3 == MoveOrCopy(m2, t.buffer_, dist, t.size_ - dist, nb, dist + 1)
        IN
        IF ~Ok(m3) THEN Deallocate(m3, nb)
        ELSE
        LET m4 == DestroyN(m3, t.buffer_, 0, t.size_)
            m5 == [m4 EXCEPT !.vecs[v].buffer_ = nb,
                             !.vecs[v].capacity_ = n,
                             !.vecs[v].size_ = t.size_ + 1,
                             !.ret = [buffer_ |-> nb, offset |-> dist]]
        IN Deallocate(m5, t.buffer_)
    ELSE
        LET b  == t.buffer_
            m1 == IF (b = NullPtr /\ dist = 0) \/ dist = t.size_
                  THEN ConstructAt(m0, b, t.size_, Arg(m0, b, x))
                  ELSE
                      \* new (end()) T(std::forward<T>(*(end() - 1)))
                      LET k1 == MoveConstructAt(m0, b, t.size_ - 1, b, t.size_)
                          k2 == IF ~Ok(k1) THEN k1
                                ELSE MoveBackward(k1, b, dist, t.size_ - 1,
                                                  t.size_)
                      \* *it = T(args...), the arguments read now
                      IN IF ~Ok(k2) THEN k2
                         ELSE AssignTemporary(k2, b, dist, Arg(k2, b, x))
        \* unwinding, or the end of the call: ~RawMemory() of new_data
        IN IF ~Ok(m1) THEN Deallocate(m1, nb)
           ELSE Deallocate([m1 EXCEPT !.vecs[v].size_ = t.size_ + 1,
                                      !.ret = [buffer_ |-> b, offset |-> dist]],
                           nb)

\* void PushBack(const T& value) / void PushBack(T&& value)
PushBack(m, v, x) == EmplaceBack(m, v, x)

\* iterator Insert(const_iterator pos, const T& value) / (pos, T&& value)
Insert(m, v, dist, x) == Emplace(m, v, dist, x)

\* Erase that shifts one element too few.
EraseShiftsShort(m, v, dist) ==
    LET t   == m.vecs[v]
        pos == [buffer_ |-> t.buffer_, offset |-> dist]
    IN
    IF t.size_ = 0 THEN [m EXCEPT !.ret = pos]
    ELSE
        LET m1 == MoveForward(m, t.buffer_, dist + 1, t.size_ - 1, dist)
            m2 == PopBack(m1, v)
        IN [m2 EXCEPT !.ret = pos]

\* Erase that removes the last element, whatever the position.
EraseWithoutShift(m, v, dist) ==
    LET t   == m.vecs[v]
        pos == [buffer_ |-> t.buffer_, offset |-> dist]
    IN
    IF t.size_ = 0 THEN [m EXCEPT !.ret = pos]
    ELSE [PopBack(m, v) EXCEPT !.ret = pos]

\* iterator Erase(const_iterator p), p = begin() + dist
Erase(m, v, dist) ==
    LET t   == m.vecs[v]
        pos == [buffer_ |-> t.buffer_, offset |-> dist]
    IN
    IF t.size_ = 0 THEN [m EXCEPT !.ret = pos]
    ELSE
        LET m1 == MoveForward(m, t.buffer_, dist + 1, t.size_, dist) IN
        IF ~Ok(m1) THEN m1
        ELSE [PopBack(m1, v) EXCEPT !.ret = pos]

\* T& operator[](size_t index), written through: v[i] = x
SetAt(m, v, i, x) == AssignAt(m, m.vecs[v].buffer_, i, x)

\* ------------------------------------------------------------ observation
\* Size(), Capacity(), and the elements operator[] shows at 0 .. Size()-1.
Size(v) == vecs[v].size_
Capacity(v) == vecs[v].capacity_
Elems(v) == [i \in 1..vecs[v].size_ |-> heap[vecs[v].buffer_][i]]

\* The same, of the vectors as a call leaves them.
SizeIn(m, v) == m.vecs[v].size_
CapacityIn(m, v) == m.vecs[v].capacity_
ElemsIn(m, v) == [i \in 1..m.vecs[v].size_ |-> m.heap[m.vecs[v].buffer_][i]]

\* The iterator begin() + dist of v as a call leaves it.
IterIn(m, v, dist) == [buffer_ |-> m.vecs[v].buffer_, offset |-> dist]

Alive == {v \in VecIds : vecs[v].alive}

\* ------------------------------------------------------------ the history
\* hist[v]: onlyPush, v was default-constructed and only PushBack was called
\* on it since, with the values in pushed; onlyGrow, v was default-constructed
\* and only PushBack, EmplaceBack, Insert and Emplace were called on it since;
\* copied, v was copy-constructed from the other vector, and since then
\* neither was destroyed, swapped or moved from.
\* The record of the last call and the history are observations of the run,
\* not state of the program: a run can be followed without them (last.op is
\* "" from the start), and then both stay as they are.
Untraced == last.op = ""
Traced(h) == IF Untraced THEN hist ELSE h

Unknown ==
    [onlyPush |-> FALSE, onlyGrow |-> FALSE, pushed |-> << >>, copied |-> FALSE]
Fresh ==
    [onlyPush |-> TRUE, onlyGrow |-> TRUE, pushed |-> << >>, copied |-> FALSE]

AfterPush(h, x) ==
    [h EXCEPT !.pushed = IF h.onlyPush THEN Append(@, x) ELSE << >>]
AfterInsert(h) == [h EXCEPT !.onlyPush = FALSE, !.pushed = << >>]
\* After any other call that may change the vector.
Forget(h) == [Unknown EXCEPT !.copied = h.copied]

\* The record of a call: rt is "insert-erase" when the call is an Erase at the
\* position of the Insert made just before it on the same vector,
\* "erase-insert" when it is an Insert, at the position of the Erase made just
\* before it on the same vector, of the value that Erase removed, and
\* "insert-erase-insert" when that Erase was itself an "insert-erase".
\* p is the position or the size given to the call, and for a copy assignment
\* the size of v before it; x is the value given, and for Erase the value
\* removed.
Call(op, v, w, p, x, path) ==
    IF Untraced THEN last
    ELSE
    [op |-> op, v |-> v, w |-> w, p |-> p, x |-> x, path |-> path,
     rt |-> IF last.v = v /\ last.p = p /\ last.path # "noop"
            THEN IF op = "Erase" /\ last.op = "Insert" THEN "insert-erase"
                 ELSE IF op = "Insert" /\ last.op = "Erase" /\ last.x = x
                      THEN IF last.rt = "insert-erase"
                           THEN "insert-erase-insert" ELSE "erase-insert"
                      ELSE ""
            ELSE ""]

\* Addresses are only ever compared for equality, so a state is kept with
\* its blocks renamed: the block of a first, then the block of b, then the
\* others in order.  Within a call the addresses are the ones allocated.
BlockOrder(m) ==
    LET ba    == m.vecs["a"].buffer_
        bb    == m.vecs["b"].buffer_
        owned == (IF ba # NullPtr THEN <<ba>> ELSE << >>)
                 \o (IF bb # NullPtr /\ bb # ba THEN <<bb>> ELSE << >>)
        rest  == {c \in Blocks : \A i \in 1..Len(owned) : owned[i] # c}
    IN owned \o [i \in 1..Cardinality(rest) |->
                    CHOOSE c \in rest : Cardinality({d \in rest : d < c}) = i - 1]

\* The effect of a call: the memory and the vectors as the call leaves them.
Done(result, call) ==
    \E m \in {result} : \E order \in {BlockOrder(m)} :
        /\ vecs' = [v \in VecIds |->
                       [m.vecs[v] EXCEPT !.buffer_ =
                           IF @ = NullPtr THEN NullPtr
                           ELSE CHOOSE i \in Blocks : order[i] = @]]
        /\ heap' = [b \in Blocks |-> m.heap[order[b]]]
        /\ last' = call

\* The vector that is not v.
Other(v) == CHOOSE u \in VecIds : u # v

\* The model stops where a call would give v a capacity n that leaves more
\* slots owned than the bounds allow.
Fits(v, n) ==
    IF vecs[Other(v)].alive
    THEN vecs[Other(v)].capacity_ + n <= MaxPairSlots
    ELSE n <= MaxSlots

\* ---------------------------------------------------------------- actions
CallVectorDefault(v) ==
    /\ ~vecs[v].alive /\ Fits(v, 0)
    /\ Done(VectorDefault(Start, v), Call("Vector", v, "", -1, -1, ""))
    /\ hist' = Traced([hist EXCEPT ![v] = Fresh])

CallVectorSized(v, n) ==
    /\ ~vecs[v].alive /\ Fits(v, n)
    /\ Done(VectorSized(Start, v, n), Call("VectorSized", v, "", n, -1, ""))
    /\ hist' = Traced([hist EXCEPT ![v] = Unknown])

CallVectorCopy(v, w) ==
    /\ ~vecs[v].alive /\ vecs[w].alive /\ Fits(v, Size(w))
    /\ Done(VectorCopy(Start, v, w), Call("VectorCopy", v, w, -1, -1, ""))
    /\ hist' = Traced([hist EXCEPT ![v] = [Unknown EXCEPT !.copied = TRUE]])

CallVectorMove(v, w) ==
    /\ ~vecs[v].alive /\ vecs[w].alive /\ Fits(v, 0)
    /\ Done(VectorMove(Start, v, w), Call("VectorMove", v, w, -1, -1, ""))
    /\ hist' = Traced([hist EXCEPT ![v] = Unknown, ![w] = Unknown])

CallDestructor(v) ==
    /\ vecs[v].alive
    /\ Done(Destructor(Start, v), Call("~Vector", v, "", -1, -1, ""))
    /\ hist' = Traced([hist EXCEPT ![v] = Unknown, ![Other(v)].copied = FALSE])

CallReserve(v, n) ==
    /\ vecs[v].alive /\ Fits(v, n)
    /\ Done(Reserve(Start, v, n),
            Call("Reserve", v, "", n, -1,
                 IF n <= Capacity(v) THEN "noop" ELSE "grow"))
    /\ hist' = Traced([hist EXCEPT ![v] = Forget(@)])

CallCopyAssign(v, w) ==
    /\ vecs[v].alive /\ vecs[w].alive
    /\ Size(w) > Capacity(v) => Fits(v, Size(w))
    /\ Done(CopyAssign(Start, v, w),
            Call("CopyAssign", v, w, Size(v), -1,
                 IF Size(w) > Capacity(v) THEN "realloc" ELSE "inplace"))
    /\ hist' = Traced([hist EXCEPT ![v] = Forget(@)])

CallMoveAssign(v, w) ==
    /\ vecs[v].alive /\ vecs[w].alive
    /\ Done(MoveAssignVector(Start, v, w), Call("MoveAssign", v, w, -1, -1, ""))
    /\ hist' = Traced([hist EXCEPT ![v] = Unknown, ![w] = Unknown])

CallSwap(v, w) ==
    /\ vecs[v].alive /\ vecs[w].alive
    /\ Done(Swap(Start, v, w), Call("Swap", v, w, -1, -1, ""))
    /\ hist' = Traced([hist EXCEPT ![v] = Unknown, ![w] = Unknown])

CallResize(v, n) ==
    /\ vecs[v].alive
    /\ n > Capacity(v) => Fits(v, n)
    /\ Done(Resize(Start, v, n),
            Call("Resize", v, "", n, -1,
                 IF n > Capacity(v) THEN "grow" ELSE "inplace"))
    /\ hist' = Traced([hist EXCEPT ![v] = Forget(@)])

CallPushBack(v, x) ==
    /\ vecs[v].alive
    /\ Size(v) = Capacity(v) => Fits(v, GrownCapacity(Size(v)))
    /\ Done(PushBack(Start, v, x),
            Call("PushBack", v, "", -1, x,
                 IF Size(v) = Capacity(v) THEN "grow" ELSE "inplace"))
    /\ hist' = Traced([hist EXCEPT ![v] = AfterPush(@, x)])

\* PopBack() needs a vector that is not empty.
CallPopBack(v) ==
    /\ vecs[v].alive /\ Size(v) > 0
    /\ Done(PopBack(Start, v), Call("PopBack", v, "", -1, -1, ""))
    /\ hist' = Traced([hist EXCEPT ![v] = Forget(@)])

\* Insert(pos, value) needs begin() <= pos <= end().
CallInsert(v, dist, x) ==
    /\ vecs[v].alive
    /\ dist \in 0..Size(v)
    /\ Size(v) = Capacity(v) => Fits(v, GrownCapacity(Size(v)))
    /\ Done(Insert(Start, v, dist, x),
            Call("Insert", v, "", dist, x,
                 IF Size(v) = Capacity(v) THEN "grow" ELSE "inplace"))
    /\ hist' = Traced([hist EXCEPT ![v] = AfterInsert(@)])

\* Erase(p) needs begin() <= p < end(), or any p when the vector is empty.
\* The call is recorded with the value it removes.
CallErase(v, dist) ==
    /\ vecs[v].alive
    /\ dist \in 0..Size(v)
    /\ Size(v) > 0 => dist < Size(v)
    /\ Done(Erase(Start, v, dist),
            Call("Erase", v, "", dist,
                 IF Size(v) = 0 THEN -1 ELSE Elems(v)[dist + 1],
                 IF Size(v) = 0 THEN "noop" ELSE "inplace"))
    /\ hist' = Traced([hist EXCEPT ![v] = Forget(@)])

\* operator[](index) needs index < Size().
CallSetAt(v, i, x) ==
    /\ vecs[v].alive
    /\ i \in 0..(Size(v) - 1)
    /\ Done(SetAt(Start, v, i, x), Call("SetAt", v, "", i, x, ""))
    /\ hist' = Traced([hist EXCEPT ![v] = Forget(@)])

\* ---------------------------------------------------------- specification
\* The program has constructed a with Vector(); b is not constructed yet.
Init ==
    /\ vecs = [v \in VecIds |-> IF v = "a" THEN Empty ELSE Dead]
    /\ heap = [b \in Blocks |-> << >>]
    /\ last = [op |-> "Vector", v |-> "a", w |-> "", p |-> -1, x |-> -1,
               path |-> "", rt |-> ""]
    /\ hist = [v \in VecIds |-> IF v = "a" THEN Fresh ELSE Unknown]

Next ==
    \/ \E v \in VecIds : CallVectorDefault(v)
    \/ \E v \in VecIds, n \in 0..MaxSlots : CallVectorSized(v, n)
    \/ \E v, w \in VecIds : v # w /\ CallVectorCopy(v, w)
    \/ \E v, w \in VecIds : v # w /\ CallVectorMove(v, w)
    \/ \E v \in VecIds : CallDestructor(v)
    \/ \E v \in VecIds, n \in 0..MaxSlots : CallReserve(v, n)
    \/ \E v, w \in VecIds : CallCopyAssign(v, w)
    \/ \E v, w \in VecIds : CallMoveAssign(v, w)
    \/ \E v, w \in VecIds : CallSwap(v, w)
    \/ \E v \in VecIds, n \in 0..MaxSlots : CallResize(v, n)
    \/ \E v \in VecIds, x \in Values : CallPushBack(v, x)
    \/ \E v \in VecIds : CallPopBack(v)
    \/ \E v \in VecIds, dist \in 0..MaxSlots, x \in Values : CallInsert(v, dist, x)
    \/ \E v \in VecIds, dist \in 0..MaxSlots : CallErase(v, dist)
    \/ \E v \in VecIds, i \in 0..MaxSlots, x \in Values : CallSetAt(v, i, x)

Spec == Init /\ [][Next]_vars

\* The same program, followed without the record of the last call and the
\* history: its states are the vectors and the heap.
InitUntraced ==
    /\ vecs = [v \in VecIds |-> IF v = "a" THEN Empty ELSE Dead]
    /\ heap = [b \in Blocks |-> << >>]
    /\ last = [op |-> "", v |-> "", w |-> "", p |-> -1, x |-> -1,
               path |-> "", rt |-> ""]
    /\ hist = [v \in VecIds |-> Unknown]

SpecUntraced == InitUntraced /\ [][Next]_vars

\* ------------------------------------------------------------------ claims
\* The sequence old with x put at index p (0-based).
InsertAt(old, p, x) ==
    [i \in 1..(Len(old) + 1) |->
        IF i <= p THEN old[i] ELSE IF i = p + 1 THEN x ELSE old[i - 1]]

\* The sequence old without the element at index p (0-based).
RemoveAt(old, p) ==
    [i \in 1..(Len(old) - 1) |-> IF i <= p THEN old[i] ELSE old[i + 1]]

\* The slots of v: [0, Size()) hold live objects, [Size(), Capacity()) none.
WellFormed(v) ==
    LET t == vecs[v] IN
    /\ 0 <= t.size_ /\ t.size_ <= t.capacity_
    /\ t.capacity_ = 0 => t.buffer_ = NullPtr
    /\ t.capacity_ > 0 => /\ t.buffer_ \in Blocks
                          /\ Len(heap[t.buffer_]) = t.capacity_
    /\ \A i \in 1..t.size_ : heap[t.buffer_][i] # Raw
    /\ \A i \in (t.size_ + 1)..t.capacity_ : heap[t.buffer_][i] = Raw

\* C1: after any sequence of public operations, every constructed vector has
\* 0 <= Size() <= Capacity(), live elements in exactly the slots [0, Size())
\* and no live element in [Size(), Capacity()).
C1_SizeCapacityInvariant == \A v \in Alive : WellFormed(v)

\* A vector with live and raw slots, left by an Erase that removed an element.
C1_Witness ==
    /\ last.op = "Erase" /\ last.path = "inplace"
    /\ Size(last.v) > 0 /\ Size(last.v) < Capacity(last.v)
    /\ vecs[Other(last.v)].alive

\* C2: a vector that was default-constructed and has had k PushBack calls and
\* nothing else has Size() = k and holds the pushed values in push order.
C2_PushBackOrder ==
    \A v \in Alive :
        hist[v].onlyPush =>
            /\ Size(v) = Len(hist[v].pushed)
            /\ Elems(v) = hist[v].pushed

\* Three pushes, hence three reallocations (capacity 1, 2, 4).
C2_Witness ==
    /\ hist["a"].onlyPush
    /\ hist["a"].pushed = <<1, 0, 1>>
    /\ Capacity("a") = 4

\* C3: Insert(begin() + p, x) on a vector of size n, 0 <= p <= n, makes the
\* size n + 1, puts x at p, keeps [0, p) in place and [p, n) one further, and
\* returns the iterator to position p; on both paths.
C3_InsertPlacesValue ==
    \A v \in Alive : \A p \in 0..Size(v) : \A x \in Values :
        LET m == Insert(Start, v, p, x) IN
        /\ SizeIn(m, v) = Size(v) + 1
        /\ ElemsIn(m, v) = InsertAt(Elems(v), p, x)
        /\ m.ret = IterIn(m, v, p)

\* An Insert in the middle of a full vector of two elements.
C3_Witness ==
    /\ last.op = "Insert" /\ last.path = "grow" /\ last.p = 1
    /\ Size(last.v) = 3
    /\ Elems(last.v)[2] = last.x

\* C4: Erase(begin() + p) on a vector of size n > 0, 0 <= p < n, removes the
\* element at p alone: size n - 1, [0, p) in place, (p, n) one nearer, the
\* capacity unchanged, p returned; on an empty vector it changes nothing and
\* returns the position given.
C4_EraseRemovesOne ==
    \A v \in Alive :
        IF Size(v) > 0
        THEN \A p \in 0..(Size(v) - 1) :
                LET m == Erase(Start, v, p) IN
                /\ SizeIn(m, v) = Size(v) - 1
                /\ ElemsIn(m, v) = RemoveAt(Elems(v), p)
                /\ CapacityIn(m, v) = Capacity(v)
                /\ m.ret = IterIn(m, v, p)
        ELSE LET m == Erase(Start, v, 0) IN
                /\ m.vecs = vecs /\ m.heap = heap
                /\ m.ret = [buffer_ |-> vecs[v].buffer_, offset |-> 0]

\* An Erase of the first of three elements.
C4_Witness ==
    /\ last.op = "Erase" /\ last.path = "inplace" /\ last.p = 0
    /\ Size(last.v) = 2

\* C5: Insert at p followed by Erase at p gives back the elements and the
\* size; so does Erase at p followed by Insert at p of the erased value.
C5_InsertEraseRoundTrip ==
    \A v \in Alive :
        /\ \A p \in 0..Size(v) : \A x \in Values :
              ElemsIn(Erase(Insert(Start, v, p, x), v, p), v) = Elems(v)
        /\ \A p \in 0..(Size(v) - 1) :
              ElemsIn(Insert(Erase(Start, v, p), v, p, Elems(v)[p + 1]), v)
                  = Elems(v)

\* Insert, Erase at the same position, Insert of the erased value there.
C5_Witness ==
    /\ last.rt = "insert-erase-insert"
    /\ last.p = 1 /\ Size(last.v) = 3

Max(x, y) == IF x >= y THEN x ELSE y

IsPowerOfTwo(n) == \E k \in 0..n : 2 ^ k = n

\* PushBack and Insert on v: the capacity doubles (from 0 to 1) when the
\* vector is full and stays as it is otherwise.
GrowthRule(v) ==
    LET expected == IF Size(v) = Capacity(v)
                    THEN Max(1, 2 * Capacity(v)) ELSE Capacity(v)
    IN \A x \in Values :
        /\ CapacityIn(PushBack(Start, v, x), v) = expected
        /\ \A p \in 0..Size(v) :
              CapacityIn(Insert(Start, v, p, x), v) = expected

\* C6: PushBack, EmplaceBack, Insert and Emplace set the capacity to
\* max(1, 2 x capacity) when Size() = Capacity() and leave it otherwise; a
\* vector default-constructed and changed only by them has a capacity of 0 or
\* a power of two, and its capacity never decreases.
C6_GrowthPolicy ==
    /\ [](\A v \in Alive :
            /\ GrowthRule(v)
            /\ hist[v].onlyGrow /\ Capacity(v) # 0 => IsPowerOfTwo(Capacity(v)))
    /\ [][\A v \in VecIds :
            hist[v].onlyGrow /\ hist'[v].onlyGrow
                => vecs'[v].capacity_ >= vecs[v].capacity_]_vars

\* A vector grown to capacity 4 by PushBack and Insert alone.
C6_Witness ==
    /\ last.op = "Insert" /\ last.path = "grow"
    /\ hist[last.v].onlyGrow
    /\ Capacity(last.v) = 4

\* C7: Reserve(n) with n > Capacity() makes the capacity exactly n and keeps
\* the size and the elements.
C7_ReserveExact ==
    \A v \in Alive : \A n \in (Capacity(v) + 1)..(MaxSlots + 1) :
        LET m == Reserve(Start, v, n) IN
        /\ CapacityIn(m, v) = n
        /\ SizeIn(m, v) = Size(v)
        /\ ElemsIn(m, v) = Elems(v)

\* Reserve(3) on a vector of two elements and capacity 2.
C7_Witness ==
    /\ last.op = "Reserve" /\ last.path = "grow" /\ last.p = 3
    /\ Capacity(last.v) = 3 /\ Size(last.v) = 2

\* C8: Reserve(n) with n <= Capacity() does nothing: the vector, its buffer
\* and every slot are as before, nothing is allocated or released, and no
\* element is constructed, assigned or destroyed.
C8_ReserveNoOp ==
    \A v \in Alive : \A n \in 0..Capacity(v) : Reserve(Start, v, n) = Start

\* Reserve(Capacity()) on a vector of two elements.
C8_Witness ==
    /\ last.op = "Reserve" /\ last.path = "noop"
    /\ last.p = Capacity(last.v) /\ Size(last.v) = 2

Untouched(m, w) == SizeIn(m, w) = Size(w) /\ ElemsIn(m, w) = Elems(w)

\* C10: once one of two vectors was copy-constructed from the other, no
\* element write, PushBack, Insert, Erase, PopBack, Resize, Reserve or copy
\* assignment on one of them changes the size or the elements of the other.
C10_ValueIndependence ==
    \A v \in Alive :
        LET w == Other(v) IN
        (vecs[w].alive /\ (hist[v].copied \/ hist[w].copied)) =>
            /\ \A i \in 0..(Size(v) - 1) : \A x \in Values :
                  Untouched(SetAt(Start, v, i, x), w)
            /\ \A x \in Values : Untouched(PushBack(Start, v, x), w)
            /\ \A p \in 0..Size(v) : \A x \in Values :
                  Untouched(Insert(Start, v, p, x), w)
            /\ \A p \in 0..(Size(v) - 1) : Untouched(Erase(Start, v, p), w)
            /\ Size(v) > 0 => Untouched(PopBack(Start, v), w)
            /\ \A n \in 0..MaxSlots :
                  /\ Untouched(Resize(Start, v, n), w)
                  /\ Untouched(Reserve(Start, v, n), w)
            /\ Untouched(CopyAssign(Start, v, w), w)

\* b was copy-constructed from a, and an element of a was then written.
C10_Witness ==
    /\ hist["b"].copied
    /\ last.op = "SetAt" /\ last.v = "a"
    /\ Size("b") > 0 /\ Elems("a") # Elems("b")

\* The call did no work on elements or memory: nothing constructed, copied,
\* moved, assigned or destroyed, no block allocated or released, every slot
\* of the heap as it was.
NoElementWork(m) ==
    /\ m.ctor = 0 /\ m.dtor = 0 /\ m.asg = 0 /\ m.moved = 0
    /\ m.alloc = 0 /\ m.free = 0
    /\ m.heap = heap

\* C11: move-constructing v from w leaves w empty and valid (size 0,
\* capacity 0, a PushBack on it works) and gives v the buffer, the size, the
\* capacity and the elements of w, with no element constructed, copied, moved
\* or destroyed; the constructor cannot throw.
C11_MoveConstruction ==
    \A w \in Alive : \A v \in VecIds \ Alive : \A k \in -1..0 :
        LET m == VectorMove(StartOf(Element, k), v, w) IN
        /\ Ok(m)
        /\ m.vecs[w] = Empty
        /\ m.vecs[v] = vecs[w]
        /\ ElemsIn(m, v) = Elems(w)
        /\ NoElementWork(m)
        /\ \A x \in Values :
              LET m1 == PushBack([m EXCEPT !.fail = -1], w, x) IN
              /\ ElemsIn(m1, w) = <<x>>
              /\ ElemsIn(m1, v) = Elems(w)

\* b was move-constructed from a vector of two different elements.
C11_Witness ==
    /\ last.op = "VectorMove"
    /\ Size(last.v) = 2 /\ Elems(last.v)[1] # Elems(last.v)[2]
    /\ vecs[last.w] = Empty

\* The steps of a call that can throw are numbered from 0.  A call that
\* allocates a buffer, constructs one element and migrates or copies n
\* elements has the steps 0 .. n + 1.
FailPoints(n) == 0..(n + 1)

\* An element type with a throwing move and a copy constructor: MoveOrCopy
\* copies it.
Copied == [nothrowMove |-> FALSE, copyable |-> TRUE]

\* The call threw, and not from a move of an element.
Failed(m) == ~Ok(m) /\ m.threw # "move"

\* The vectors, their buffers and every element are as before the call.
AsBefore(m) == m.vecs = vecs /\ m.heap = heap

\* C12: when Reserve(n > capacity), EmplaceBack/PushBack at capacity,
\* Insert/Emplace at capacity or a copy assignment from a source larger than
\* the capacity fails (the allocation, the construction of the new element
\* or a copy of an element throws), the vector has the size, the capacity,
\* the buffer and the elements it had before the call.
C12_StrongGuarantee ==
    \A v \in Alive : \A T \in Types :
        /\ \A n \in (Capacity(v) + 1)..(MaxSlots + 1) :
              \A k \in FailPoints(Size(v)) :
                  LET m == Reserve(StartOf(T, k), v, n)
                  IN Failed(m) => AsBefore(m)
        /\ Size(v) = Capacity(v) =>
              \A x \in Values : \A k \in FailPoints(Size(v)) :
                  /\ LET m == PushBack(StartOf(T, k), v, x)
                     IN Failed(m) => AsBefore(m)
                  /\ \A p \in 0..Size(v) :
                        LET m == Insert(StartOf(T, k), v, p, x)
                        IN Failed(m) => AsBefore(m)
        /\ IsCopyConstructible(T) =>
              \A w \in Alive :
                  Size(w) > Capacity(v) =>
                      \A k \in FailPoints(Size(w)) :
                          LET m == CopyAssign(StartOf(T, k), v, w)
                          IN Failed(m) => AsBefore(m)

\* A full vector of two different elements, on which PushBack throws from the
\* copy of the second element into the new buffer, after the new element and
\* the first copy were constructed there.
C12_Witness ==
    \E v \in Alive :
        /\ Size(v) = 2 /\ Capacity(v) = 2 /\ Elems(v)[1] # Elems(v)[2]
        /\ LET m == PushBack(StartOf(Copied, 3), v, 1)
           IN Failed(m) /\ m.threw = "ctor" /\ m.alloc = 1 /\ m.ctor = 2

\* The vector v, which held had elements before the call m, is destroyed
\* after it: every object that was alive in v or was constructed by the call
\* has been destroyed once, and none twice.  A vector whose constructor threw
\* is not destroyed.
DestroyedOnce(m, v, had) ==
    LET d == IF m.vecs[v].alive THEN Destructor(m, v) ELSE m IN
    /\ d.dtor = had + d.ctor
    /\ d.leaked = 0
    /\ d.dtorTwice = 0

\* C13: whatever operation is called on a vector, and whether or not a
\* construction, a copy or a move of an element throws in it, once the vector
\* is destroyed every element constructed in its buffer or in a new buffer
\* being filled has been destroyed exactly once.
C13_NoLeakNoDoubleDestruction ==
    \A T \in Types : \A k \in {-1} \cup FailPoints(MaxSlots) :
        LET s == StartOf(T, k) IN
        /\ \A v \in VecIds \ Alive :
              /\ \A n \in 0..MaxSlots : DestroyedOnce(VectorSized(s, v, n), v, 0)
              /\ IsCopyConstructible(T) =>
                    \A w \in Alive : DestroyedOnce(VectorCopy(s, v, w), v, 0)
        /\ \A v \in Alive :
              /\ \A n \in 0..(MaxSlots + 1) :
                    /\ DestroyedOnce(Reserve(s, v, n), v, Size(v))
                    /\ DestroyedOnce(Resize(s, v, n), v, Size(v))
              /\ \A x \in Values :
                    /\ DestroyedOnce(EmplaceBack(s, v, x), v, Size(v))
                    /\ \A p \in 0..Size(v) :
                          DestroyedOnce(Emplace(s, v, p, x), v, Size(v))
              /\ \A p \in 0..(Size(v) - 1) :
                    DestroyedOnce(Erase(s, v, p), v, Size(v))
              /\ Size(v) > 0 => DestroyedOnce(PopBack(s, v), v, Size(v))
              /\ IsCopyConstructible(T) =>
                    \A w \in Alive :
                        DestroyedOnce(CopyAssign(s, v, w), v, Size(v))

\* C14: Resize(n) makes the size n with a capacity of at least n; the first
\* min(old size, n) elements are as before; the slots from the old size to n
\* hold default-constructed elements; the elements from n to the old size are
\* destroyed; and when n <= the old capacity, the capacity (and the buffer)
\* is unchanged.
C14_Resize ==
    \A v \in Alive : \A n \in 0..(MaxSlots + 1) :
        LET m   == Resize(Start, v, n)
            old == Size(v)
            b   == m.vecs[v].buffer_
        IN
        /\ SizeIn(m, v) = n
        /\ CapacityIn(m, v) >= n
        /\ \A i \in 1..Min(old, n) : ElemsIn(m, v)[i] = Elems(v)[i]
        /\ \A i \in (old + 1)..n : ElemsIn(m, v)[i] = TDefault
        /\ \A i \in (n + 1)..CapacityIn(m, v) : m.heap[b][i] = Raw
        /\ n < old => m.dtor = old - n /\ m.ctor = 0
        /\ n <= Capacity(v) =>
              /\ CapacityIn(m, v) = Capacity(v)
              /\ b = vecs[v].buffer_
              /\ m.alloc = 0 /\ m.free = 0
              /\ m.ctor = Max(0, n - old)

\* Resize(3) on a vector of two elements and capacity 2 whose first element
\* is not the default value.
C14_Witness ==
    /\ last.op = "Resize" /\ last.path = "grow" /\ last.p = 3
    /\ Size(last.v) = 3 /\ Capacity(last.v) = 3
    /\ Elems(last.v)[1] # TDefault /\ Elems(last.v)[3] = TDefault

\* The call m exchanged the state of v and w and did nothing else.
Exchanged(m, v, w) ==
    /\ Ok(m)
    /\ m.vecs[v] = vecs[w] /\ m.vecs[w] = vecs[v]
    /\ ElemsIn(m, v) = Elems(w) /\ ElemsIn(m, w) = Elems(v)
    /\ \A u \in VecIds \ {v, w} : m.vecs[u] = vecs[u]
    /\ NoElementWork(m)

\* C15: v.Swap(w) and v = std::move(w) give v the buffer, the size, the
\* capacity and the elements w had and w those v had, construct, copy, move
\* and destroy no element, and cannot throw; Swap applied twice restores both
\* vectors.
C15_SwapExchanges ==
    \A v \in Alive : \A w \in Alive : \A T \in Types : \A k \in -1..0 :
        LET s == StartOf(T, k) IN
        /\ Exchanged(Swap(s, v, w), v, w)
        /\ Exchanged(MoveAssignVector(s, v, w), v, w)
        /\ Swap(Swap(s, v, w), v, w) = s

\* Two vectors of one element each, with different values, were swapped.
C15_Witness ==
    /\ last.op = "Swap" /\ last.v # last.w
    /\ Size(last.v) = 1 /\ Size(last.w) = 1
    /\ Elems(last.v) # Elems(last.w)

\* The vector v as the call m leaves it: Size() <= Capacity(), live objects
\* in the slots [0, Size()) and none in [Size(), Capacity()).
WellFormedIn(m, v) ==
    LET t == m.vecs[v] IN
    /\ 0 <= t.size_ /\ t.size_ <= t.capacity_
    /\ t.capacity_ = 0 => t.buffer_ = NullPtr
    /\ t.capacity_ > 0 => /\ t.buffer_ \in Blocks
                          /\ Len(m.heap[t.buffer_]) = t.capacity_
    /\ \A i \in 1..t.size_ : m.heap[t.buffer_][i] # Raw
    /\ \A i \in (t.size_ + 1)..t.capacity_ : m.heap[t.buffer_][i] = Raw

\* C16: when a construction or an assignment of an element throws in a copy
\* assignment that does not reallocate, in an Insert/Emplace below capacity
\* or in an Erase, the vector is left valid: Size() <= Capacity(), live
\* elements in exactly the slots [0, Size()), none in [Size(), Capacity()).
C16_BasicGuarantee ==
    \A v \in Alive : \A T \in Types : \A k \in FailPoints(MaxSlots) :
        LET s == StartOf(T, k) IN
        /\ IsCopyConstructible(T) =>
              \A w \in Alive :
                  Size(w) <= Capacity(v) =>
                      LET m == CopyAssign(s, v, w)
                      IN ~Ok(m) => WellFormedIn(m, v)
        /\ Size(v) < Capacity(v) =>
              \A p \in 0..Size(v) : \A x \in Values :
                  /\ LET m == Emplace(s, v, p, x)
                     IN ~Ok(m) => WellFormedIn(m, v)
                  /\ LET m == Insert(s, v, p, x)
                     IN ~Ok(m) => WellFormedIn(m, v)
        /\ \A p \in 0..(Size(v) - 1) :
              LET m == Erase(s, v, p) IN ~Ok(m) => WellFormedIn(m, v)

\* An element type with no copy constructor.
MoveOnly == [nothrowMove |-> TRUE, copyable |-> FALSE]

\* The policy: T is migrated by move when its move cannot throw or it has
\* no copy constructor.
ByMove(T) == T.nothrowMove \/ ~T.copyable

\* The call m migrated the n elements of a vector into a new buffer, and
\* constructed new elements besides: all by move, or all by copy.
MigratedByPolicy(m, T, n, new) ==
    /\ Ok(m)
    /\ m.ctor = n + new
    /\ m.moved = IF ByMove(T) THEN n ELSE 0

\* C17: Reserve, EmplaceBack at capacity and Insert/Emplace at capacity
\* migrate the elements by move if and only if T's move cannot throw or T has
\* no copy constructor, and by copy otherwise; a copy migration leaves the
\* elements of the old buffer as they are until the new buffer is adopted
\* (so also when a copy throws); the elements keep their order.  EmplaceBack
\* on a full vector of two elements of a move-only type gives capacity 4.
C17_MoveOrCopyPolicy ==
    \A v \in Alive : \A T \in Types :
        LET s   == StartOf(T, -1)
            n   == Size(v)
            old == vecs[v].buffer_
        IN
        /\ n > 0 =>
              LET nb == AllocPtr(s, n)
                  m  == MoveOrCopy(Allocate(s, n), old, 0, n, nb, 0)
              IN /\ \A i \in 1..n :
                       /\ m.heap[nb][i] = Elems(v)[i]
                       /\ m.heap[old][i] =
                              IF ByMove(T) THEN MovedFrom ELSE Elems(v)[i]
                 /\ MigratedByPolicy(m, T, n, 0)
        /\ \A c \in (Capacity(v) + 1)..(MaxSlots + 1) :
              LET m == Reserve(s, v, c)
              IN MigratedByPolicy(m, T, n, 0) /\ ElemsIn(m, v) = Elems(v)
        /\ n = Capacity(v) =>
              \A x \in Values :
                  /\ LET m == EmplaceBack(s, v, x)
                     IN /\ MigratedByPolicy(m, T, n, 1)
                        /\ ElemsIn(m, v) = Append(Elems(v), x)
                        /\ CapacityIn(m, v) = Max(1, 2 * n)
                  /\ \A p \in 0..n :
                        LET m == Emplace(s, v, p, x)
                        IN /\ MigratedByPolicy(m, T, n, 1)
                           /\ ElemsIn(m, v) = InsertAt(Elems(v), p, x)
        /\ ~ByMove(T) /\ n > 0 =>
              \A k \in FailPoints(n) :
                  /\ LET m == Reserve(StartOf(T, k), v, Capacity(v) + 1)
                     IN ~Ok(m) => m.heap[old] = heap[old]
                  /\ n = Capacity(v) =>
                        \A p \in 0..n :
                            LET m == Emplace(StartOf(T, k), v, p, 0)
                            IN ~Ok(m) => m.heap[old] = heap[old]

\* A full vector of two different elements on which EmplaceBack, with a
\* move-only element type, moves both elements into a buffer of capacity 4.
C17_Witness ==
    \E v \in Alive :
        /\ Size(v) = 2 /\ Capacity(v) = 2 /\ Elems(v) = <<1, 0>>
        /\ LET m == EmplaceBack(StartOf(MoveOnly, -1), v, 1)
           IN /\ Ok(m) /\ m.moved = 2 /\ m.ctor = 3
              /\ CapacityIn(m, v) = 4 /\ ElemsIn(m, v) = <<1, 0, 1>>

\* The blocks that are allocated in the heap h.
Allocated(h) == {b \in Blocks : h[b] # << >>}

\* The call m released no block twice, and the blocks allocated after it are
\* those allocated before it, plus those it allocated, less those it released.
ReleasedOnce(m) ==
    /\ m.freeTwice = 0
    /\ Cardinality(Allocated(m.heap))
           = Cardinality(Allocated(heap)) + m.alloc - m.free

\* C18: every allocated block is the buffer of exactly one constructed
\* vector, the buffer of a constructed vector is an allocated block, no call
\* (construction, copy or move construction, copy or move assignment, Swap,
\* growth, destruction), completed or left by an exception, releases a block
\* twice or loses one, and once every vector is destroyed no block is
\* allocated.
C18_ExclusiveOwnership ==
    /\ \A b \in Blocks :
          heap[b] # << >> =>
              Cardinality({v \in Alive : vecs[v].buffer_ = b}) = 1
    /\ \A v \in Alive :
          vecs[v].buffer_ # NullPtr => heap[vecs[v].buffer_] # << >>
    /\ \A v \in VecIds \ Alive : vecs[v].buffer_ = NullPtr
    /\ Alive = {} => Allocated(heap) = {}
    /\ \A v \in Alive :
          /\ LET m == Destructor(Start, v)
             IN /\ ReleasedOnce(m)
                /\ m.free = IF Capacity(v) > 0 THEN 1 ELSE 0
                /\ vecs[v].buffer_ # NullPtr => m.heap[vecs[v].buffer_] = << >>
          /\ \A w \in Alive :
                /\ ReleasedOnce(MoveAssignVector(Start, v, w))
                /\ ReleasedOnce(Swap(Start, v, w))
          /\ \A w \in VecIds \ Alive : ReleasedOnce(VectorMove(Start, w, v))
    \* the calls that can throw, whether or not they do
    /\ \A T \in Types : \A k \in {-1} \cup FailPoints(MaxSlots) :
          LET s == StartOf(T, k) IN
          /\ \A v \in VecIds \ Alive :
                /\ \A n \in 0..MaxSlots : ReleasedOnce(VectorSized(s, v, n))
                /\ \A w \in Alive : ReleasedOnce(VectorCopy(s, v, w))
          /\ \A v \in Alive :
                /\ \A n \in 0..(MaxSlots + 1) :
                      /\ ReleasedOnce(Reserve(s, v, n))
                      /\ ReleasedOnce(Resize(s, v, n))
                /\ \A x \in Values :
                      /\ ReleasedOnce(PushBack(s, v, x))
                      /\ \A p \in 0..Size(v) : ReleasedOnce(Insert(s, v, p, x))
                /\ \A w \in Alive : ReleasedOnce(CopyAssign(s, v, w))

\* The vector a, constructed first, was destroyed; b owns a block, and its
\* destruction releases that block and leaves nothing allocated.
C18_Witness ==
    /\ Alive = {"b"} /\ Capacity("b") > 0
    /\ LET m == Destructor(Start, "b")
       IN m.free = 1 /\ Allocated(m.heap) = {}

\* C19: Insert(begin() + p, v[i]), the value given as a reference to an
\* element of the vector itself, puts at p the value v[i] had before the
\* call and keeps the other elements in order, below capacity as well as at
\* capacity.
C19_SelfReferencingInsert ==
    \A v \in Alive : \A p \in 0..Size(v) : \A i \in 0..(Size(v) - 1) :
        LET m == Insert(Start, v, p, Ref(i)) IN
        /\ SizeIn(m, v) = Size(v) + 1
        /\ ElemsIn(m, v) = InsertAt(Elems(v), p, Elems(v)[i + 1])

\* C20: Insert/Emplace on a vector with Size() < Capacity() allocates no
\* buffer, so it cannot fail from an allocation; a buffer is allocated only
\* when Size() = Capacity().
C20_InsertBelowCapacityAllocatesNothing ==
    \A v \in Alive : \A p \in 0..Size(v) : \A x \in Values :
        /\ Size(v) < Capacity(v) =>
              /\ Insert(Start, v, p, x).alloc = 0
              /\ Emplace(Start, v, p, x).alloc = 0
              /\ Insert(StartOf(Element, 0), v, p, x).threw # "alloc"
        /\ Insert(Start, v, p, x).alloc > 0 => Size(v) = Capacity(v)

====
